---- MODULE Spec2Model ----
(***************************************************************************)
(* SbefBOTV2 chat front-end: the intent classifier, the transport client's *)
(* request serialisation, the ChatMessage HTML extraction, and the App     *)
(* component's conversation, view and project-library state.               *)
(*                                                                         *)
(* Strings that the code inspects (toLowerCase, includes, match, trim) are *)
(* sequences of UTF-16 code units; opaque strings (ids, image bytes,       *)
(* language tags) are TLA+ strings.                                        *)
(***************************************************************************)
EXTENDS Integers, Sequences, FiniteSets, TLC

----------------------------------------------------------------------------
(* String primitives of the JavaScript runtime, on code-unit sequences.   *)

\* String.prototype.indexOf(pat, from) with 1-based positions; 0 when absent
\* (JavaScript's -1).
IndexOf(s, pat, from) ==
    LET hits == { i \in from..(Len(s) - Len(pat) + 1) :
                    SubSeq(s, i, i + Len(pat) - 1) = pat }
    IN  IF hits = {} THEN 0 ELSE CHOOSE i \in hits : \A j \in hits : i <= j

\* String.prototype.includes
includes(s, pat) == IndexOf(s, pat, 1) # 0

\* Flattening of a sequence of sequences.
RECURSIVE Flatten(_)
Flatten(ss) == IF ss = << >> THEN << >> ELSE Head(ss) \o Flatten(Tail(ss))

\* Lower-case mapping of one code unit (Unicode default case conversion, the
\* locale-insensitive one String.prototype.toLowerCase applies): A-Z, the
\* Latin-1 and Latin Extended capitals of the Azerbaijani/Turkish alphabets,
\* U+0130 (capital dotted I, which lower-cases to "i" + U+0307), and the
\* Cyrillic capitals.
LowerUnit(c) ==
    IF c \in 65..90 THEN <<c + 32>>
    ELSE IF c \in 192..222 /\ c # 215 THEN <<c + 32>>
    ELSE IF c = 286 THEN <<287>>
    ELSE IF c = 304 THEN <<105, 775>>
    ELSE IF c = 350 THEN <<351>>
    ELSE IF c = 399 THEN <<601>>
    ELSE IF c \in 1040..1071 THEN <<c + 32>>
    ELSE IF c = 1025 THEN <<1105>>
    ELSE <<c>>

\* Upper-case mapping of one code unit (String.prototype.toUpperCase):
\* U+0131 (dotless i) upper-cases to the ASCII "I", U+00DF to "SS".
UpperUnit(c) ==
    IF c \in 97..122 THEN <<c - 32>>
    ELSE IF c = 223 THEN <<83, 83>>
    ELSE IF c \in 224..254 /\ c # 247 THEN <<c - 32>>
    ELSE IF c = 287 THEN <<286>>
    ELSE IF c = 305 THEN <<73>>
    ELSE IF c = 351 THEN <<350>>
    ELSE IF c = 601 THEN <<399>>
    ELSE IF c \in 1072..1103 THEN <<c - 32>>
    ELSE IF c = 1105 THEN <<1025>>
    ELSE <<c>>

toLowerCase(s) == Flatten([i \in 1..Len(s) |-> LowerUnit(s[i])])

toUpperCase(s) == Flatten([i \in 1..Len(s) |-> UpperUnit(s[i])])

\* White space and line terminators that String.prototype.trim strips.
WhiteSpace == {9, 10, 11, 12, 13, 32, 160, 5760, 8232, 8233, 8239, 8287, 12288, 65279}
                 \cup (8192..8202)

trim(s) ==
    LET keep == { i \in 1..Len(s) : s[i] \notin WhiteSpace }
    IN  IF keep = {} THEN << >>
        ELSE SubSeq(s, CHOOSE i \in keep : \A j \in keep : i <= j,
                       CHOOSE i \in keep : \A j \in keep : i >= j)

----------------------------------------------------------------------------
(* Intent classifier (App.tsx).                                           *)

\* const keywords, each entry as its code units
keywords ==
    <<
    \* "yarat"
      <<121, 97, 114, 97, 116>>,
    \* "çək"
      <<231, 601, 107>>,
    \* "hazırla"
      <<104, 97, 122, 305, 114, 108, 97>>,
    \* "çiz"
      <<231, 105, 122>>,
    \* "oluştur"
      <<111, 108, 117, 351, 116, 117, 114>>,
    \* "tasarla"
      <<116, 97, 115, 97, 114, 108, 97>>,
    \* "draw"
      <<100, 114, 97, 119>>,
    \* "generate"
      <<103, 101, 110, 101, 114, 97, 116, 101>>,
    \* "create"
      <<99, 114, 101, 97, 116, 101>>,
    \* "paint"
      <<112, 97, 105, 110, 116>>,
    \* "нарисуй"
      <<1085, 1072, 1088, 1080, 1089, 1091, 1081>>,
    \* "создай"
      <<1089, 1086, 1079, 1076, 1072, 1081>> >>

\* const subjects
subjects ==
    <<
    \* "şəkil"
      <<351, 601, 107, 105, 108>>,
    \* "foto"
      <<102, 111, 116, 111>>,
    \* "təsvir"
      <<116, 601, 115, 118, 105, 114>>,
    \* "mənzərə"
      <<109, 601, 110, 122, 601, 114, 601>>,
    \* "resim"
      <<114, 101, 115, 105, 109>>,
    \* "görüntü"
      <<103, 246, 114, 252, 110, 116, 252>>,
    \* "fotoğraf"
      <<102, 111, 116, 111, 287, 114, 97, 102>>,
    \* "image"
      <<105, 109, 97, 103, 101>>,
    \* "picture"
      <<112, 105, 99, 116, 117, 114, 101>>,
    \* "photo"
      <<112, 104, 111, 116, 111>>,
    \* "картинку"
      <<1082, 1072, 1088, 1090, 1080, 1085, 1082, 1091>>,
    \* "изображение"
      <<1080, 1079, 1086, 1073, 1088, 1072, 1078, 1077, 1085, 1080, 1077>> >>

isImageGenerationRequest(text) ==
    LET lowerText == toLowerCase(text)
    IN  /\ \E k \in 1..Len(keywords) : includes(lowerText, keywords[k])
        /\ \E s \in 1..Len(subjects) : includes(lowerText, subjects[s])

----------------------------------------------------------------------------
(* Values of types.ts and the constant tables of App.tsx.                 *)

\* null / undefined of an optional string (attachment, selectedLanguage, htmlCode)
NULL == "null"

\* enum Sender
USER == "user"
BOT == "model"

\* const LANGUAGES (the codes)
LANGUAGES == {"az", "tr", "en", "ru"}

\* "SbefBOTV2 sistemdədir. Tural Alıyev tərəfindən yeniləndi. Eşidirəm səni, nə lazımdır?"
WELCOME_az ==
    <<83, 98, 101, 102, 66, 79, 84, 86, 50, 32, 115, 105, 115, 116, 101, 109, 100, 601, 100,
    105, 114, 46, 32, 84, 117, 114, 97, 108, 32, 65, 108, 305, 121, 101, 118, 32, 116, 601,
    114, 601, 102, 105, 110, 100, 601, 110, 32, 121, 101, 110, 105, 108, 601, 110, 100, 105,
    46, 32, 69, 351, 105, 100, 105, 114, 601, 109, 32, 115, 601, 110, 105, 44, 32, 110, 601,
    32, 108, 97, 122, 305, 109, 100, 305, 114, 63>>

\* "SbefBOTV2 devrede. Tural Alıyev tarafından güncellendi. Seni dinliyorum, ne yapalım?"
WELCOME_tr ==
    <<83, 98, 101, 102, 66, 79, 84, 86, 50, 32, 100, 101, 118, 114, 101, 100, 101, 46, 32,
    84, 117, 114, 97, 108, 32, 65, 108, 305, 121, 101, 118, 32, 116, 97, 114, 97, 102, 305,
    110, 100, 97, 110, 32, 103, 252, 110, 99, 101, 108, 108, 101, 110, 100, 105, 46, 32, 83,
    101, 110, 105, 32, 100, 105, 110, 108, 105, 121, 111, 114, 117, 109, 44, 32, 110, 101,
    32, 121, 97, 112, 97, 108, 305, 109, 63>>

\* "SbefBOTV2 Online. Upgraded by Tural Aliyev. I am listening, how can I assist?"
WELCOME_en ==
    <<83, 98, 101, 102, 66, 79, 84, 86, 50, 32, 79, 110, 108, 105, 110, 101, 46, 32, 85,
    112, 103, 114, 97, 100, 101, 100, 32, 98, 121, 32, 84, 117, 114, 97, 108, 32, 65, 108,
    105, 121, 101, 118, 46, 32, 73, 32, 97, 109, 32, 108, 105, 115, 116, 101, 110, 105, 110,
    103, 44, 32, 104, 111, 119, 32, 99, 97, 110, 32, 73, 32, 97, 115, 115, 105, 115, 116,
    63>>

\* "SbefBOTV2 в сети. Обновлен Туралом Алыевым. Я слушаю, чем помочь?"
WELCOME_ru ==
    <<83, 98, 101, 102, 66, 79, 84, 86, 50, 32, 1074, 32, 1089, 1077, 1090, 1080, 46, 32,
    1054, 1073, 1085, 1086, 1074, 1083, 1077, 1085, 32, 1058, 1091, 1088, 1072, 1083, 1086,
    1084, 32, 1040, 1083, 1099, 1077, 1074, 1099, 1084, 46, 32, 1071, 32, 1089, 1083, 1091,
    1096, 1072, 1102, 44, 32, 1095, 1077, 1084, 32, 1087, 1086, 1084, 1086, 1095, 1100, 63>>

\* const WELCOME_MESSAGES
WELCOME_MESSAGES(lang) ==
    CASE lang = "az" -> WELCOME_az
      [] lang = "tr" -> WELCOME_tr
      [] lang = "en" -> WELCOME_en
      [] lang = "ru" -> WELCOME_ru

\* SUGGESTIONS.az
SUGGESTIONS_az ==
    <<
    \* "Mənə lətifə danış"
      <<77, 601, 110, 601, 32, 108, 601, 116, 105, 102, 601, 32, 100, 97, 110, 305, 351>>,
    \* "Bakının gəfləcək şəklini yarat"
      <<66, 97, 107, 305, 110, 305, 110, 32, 103, 601, 102, 108, 601, 99, 601, 107, 32, 351,
      601, 107, 108, 105, 110, 105, 32, 121, 97, 114, 97, 116>>,
    \* "Portfolio saytı düzəlt (Figma style)"
      <<80, 111, 114, 116, 102, 111, 108, 105, 111, 32, 115, 97, 121, 116, 305, 32, 100,
      252, 122, 601, 108, 116, 32, 40, 70, 105, 103, 109, 97, 32, 115, 116, 121, 108, 101,
      41>>,
    \* "Həyatın mənası nədir?"
      <<72, 601, 121, 97, 116, 305, 110, 32, 109, 601, 110, 97, 115, 305, 32, 110, 601, 100,
      105, 114, 63>> >>

\* SUGGESTIONS.tr
SUGGESTIONS_tr ==
    <<
    \* "Bana bir fıkra anlat"
      <<66, 97, 110, 97, 32, 98, 105, 114, 32, 102, 305, 107, 114, 97, 32, 97, 110, 108, 97,
      116>>,
    \* "İstanbul resmi çiz"
      <<304, 115, 116, 97, 110, 98, 117, 108, 32, 114, 101, 115, 109, 105, 32, 231, 105,
      122>>,
    \* "Modern bir cafe sitesi yap"
      <<77, 111, 100, 101, 114, 110, 32, 98, 105, 114, 32, 99, 97, 102, 101, 32, 115, 105,
      116, 101, 115, 105, 32, 121, 97, 112>>,
    \* "Motivasyon sözü söyle"
      <<77, 111, 116, 105, 118, 97, 115, 121, 111, 110, 32, 115, 246, 122, 252, 32, 115,
      246, 121, 108, 101>> >>

\* SUGGESTIONS.en
SUGGESTIONS_en ==
    <<
    \* "Tell me a joke"
      <<84, 101, 108, 108, 32, 109, 101, 32, 97, 32, 106, 111, 107, 101>>,
    \* "Generate a futuristic image"
      <<71, 101, 110, 101, 114, 97, 116, 101, 32, 97, 32, 102, 117, 116, 117, 114, 105, 115,
      116, 105, 99, 32, 105, 109, 97, 103, 101>>,
    \* "Create a startup landing page"
      <<67, 114, 101, 97, 116, 101, 32, 97, 32, 115, 116, 97, 114, 116, 117, 112, 32, 108,
      97, 110, 100, 105, 110, 103, 32, 112, 97, 103, 101>>,
    \* "What is the meaning of life?"
      <<87, 104, 97, 116, 32, 105, 115, 32, 116, 104, 101, 32, 109, 101, 97, 110, 105, 110,
      103, 32, 111, 102, 32, 108, 105, 102, 101, 63>> >>

\* SUGGESTIONS.ru
SUGGESTIONS_ru ==
    <<
    \* "Расскажи шутку"
      <<1056, 1072, 1089, 1089, 1082, 1072, 1078, 1080, 32, 1096, 1091, 1090, 1082, 1091>>,
    \* "Нарисуй будущее"
      <<1053, 1072, 1088, 1080, 1089, 1091, 1081, 32, 1073, 1091, 1076, 1091, 1097, 1077,
      1077>>,
    \* "Создай сайт для ресторана"
      <<1057, 1086, 1079, 1076, 1072, 1081, 32, 1089, 1072, 1081, 1090, 32, 1076, 1083,
      1103, 32, 1088, 1077, 1089, 1090, 1086, 1088, 1072, 1085, 1072>>,
    \* "В чем смысл жизни?"
      <<1042, 32, 1095, 1077, 1084, 32, 1089, 1084, 1099, 1089, 1083, 32, 1078, 1080, 1079,
      1085, 1080, 63>> >>

\* "Azərbaycan dili"
LANG_NAME_az ==
    <<65, 122, 601, 114, 98, 97, 121, 99, 97, 110, 32, 100, 105, 108, 105>>

\* "Türkçe"
LANG_NAME_tr ==
    <<84, 252, 114, 107, 231, 101>>

\* "English"
LANG_NAME_en ==
    <<69, 110, 103, 108, 105, 115, 104>>

\* "Русский язык"
LANG_NAME_ru ==
    <<1056, 1091, 1089, 1089, 1082, 1080, 1081, 32, 1103, 1079, 1099, 1082>>

\* const SUGGESTIONS
SUGGESTIONS(lang) ==
    CASE lang = "az" -> SUGGESTIONS_az
      [] lang = "tr" -> SUGGESTIONS_tr
      [] lang = "en" -> SUGGESTIONS_en
      [] lang = "ru" -> SUGGESTIONS_ru

\* const langMap of handleSendMessage 
langMap(lang) ==
    CASE lang = "az" -> LANG_NAME_az
      [] lang = "tr" -> LANG_NAME_tr
      [] lang = "en" -> LANG_NAME_en
      [] lang = "ru" -> LANG_NAME_ru

\* "Buyur, istədiyin o mükəmməl təsvir:"
IMAGE_REPLY_TEXT ==
    <<66, 117, 121, 117, 114, 44, 32, 105, 115, 116, 601, 100, 105, 121, 105, 110, 32, 111,
    32, 109, 252, 107, 601, 109, 109, 601, 108, 32, 116, 601, 115, 118, 105, 114, 58>>

\* "Şəkil serveri məşğuldur. Bir az sonra yoxlayın."
IMAGE_ERROR_MESSAGE ==
    <<350, 601, 107, 105, 108, 32, 115, 101, 114, 118, 101, 114, 105, 32, 109, 601, 351,
    287, 117, 108, 100, 117, 114, 46, 32, 66, 105, 114, 32, 97, 122, 32, 115, 111, 110, 114,
    97, 32, 121, 111, 120, 108, 97, 121, 305, 110, 46>>

\* "Sistem xətası: SbefBOTV2 əlaqəni itirdi."
TEXT_ERROR_MESSAGE ==
    <<83, 105, 115, 116, 101, 109, 32, 120, 601, 116, 97, 115, 305, 58, 32, 83, 98, 101,
    102, 66, 79, 84, 86, 50, 32, 601, 108, 97, 113, 601, 110, 105, 32, 105, 116, 105, 114,
    100, 105, 46>>

\* "Bağışlayın, təhlükəsizlik protokolu cavabı blokladı."
BLOCKED_NOTICE ==
    <<66, 97, 287, 305, 351, 108, 97, 121, 305, 110, 44, 32, 116, 601, 104, 108, 252, 107,
    601, 115, 105, 122, 108, 105, 107, 32, 112, 114, 111, 116, 111, 107, 111, 108, 117, 32,
    99, 97, 118, 97, 98, 305, 32, 98, 108, 111, 107, 108, 97, 100, 305, 46>>

\* "Sistem xətası."
FALLBACK_ERROR_TEXT ==
    <<83, 105, 115, 116, 101, 109, 32, 120, 601, 116, 97, 115, 305, 46>>

\* "```html"
FENCE_HTML ==
    <<96, 96, 96, 104, 116, 109, 108>>

\* "```"
FENCE ==
    <<96, 96, 96>>

\* "<!DOCTYPE html>"
DOCTYPE ==
    <<60, 33, 68, 79, 67, 84, 89, 80, 69, 32, 104, 116, 109, 108, 62>>

\* "' ' (a single space)"
SPACE ==
    <<32>>

----------------------------------------------------------------------------
(* JavaScript truthiness of the optional strings the code tests.          *)

\* string | null | undefined held as a TLA+ string (attachments, language)
Truthy(a) == a # NULL /\ a # ""

----------------------------------------------------------------------------
(* Transport client: sendMessageToGemini's request serialisation.         *)

\* Part with inlineData
InlinePart(data) ==
    [kind |-> "inlineData", mimeType |-> "image/jpeg", data |-> data, text |-> << >>]

\* Part with text
TextPart(text) ==
    [kind |-> "text", mimeType |-> NULL, data |-> NULL, text |-> text]

\* The callback of history.map: one Content per history entry.
HistoryContent(msg) ==
    [role  |-> IF msg.sender = USER THEN "user" ELSE "model",
     parts |-> (IF Truthy(msg.attachment) THEN <<InlinePart(msg.attachment)>> ELSE << >>)
               \o (IF msg.text # << >> \/ ~Truthy(msg.attachment)
                   THEN <<TextPart(IF msg.text # << >> THEN msg.text ELSE SPACE)>>
                   ELSE << >>)]

\* The Content pushed for the current message.
CurrentContent(currentMessage, imageBase64) ==
    [role  |-> "user",
     parts |-> (IF Truthy(imageBase64) THEN <<InlinePart(imageBase64)>> ELSE << >>)
               \o <<TextPart(currentMessage)>>]

\* Variant of sendMessageToGemini: the current message's turn is put in front of
\* the history (unshift for push).
sendMessageToGemini_currentFirst(history, currentMessage, imageBase64) ==
    <<CurrentContent(currentMessage, imageBase64)>>
        \o [i \in 1..Len(history) |-> HistoryContent(history[i])]

\* The contents array sendMessageToGemini hands to ai.models.generateContent.
sendMessageToGemini(history, currentMessage, imageBase64) ==
    [i \in 1..Len(history) |-> HistoryContent(history[i])]
        \o <<CurrentContent(currentMessage, imageBase64)>>

----------------------------------------------------------------------------
(* ChatMessage: the HTML extraction effect and the preview button.        *)

\* htmlCode state: null, or the string the effect set
NoHtmlCode == [null |-> TRUE, code |-> << >>]
SomeHtmlCode(code) == [null |-> FALSE, code |-> code]

\* message.text.match(/```html([\s\S]*?)```/): the capture group of the leftmost
\* match, with the lazy quantifier stopping at the first closing fence; matched
\* is FALSE when there is no match.
MatchHtmlFence(text) ==
    LET open  == IndexOf(text, FENCE_HTML, 1)
        close == IF open = 0 THEN 0 ELSE IndexOf(text, FENCE, open + Len(FENCE_HTML))
    IN  IF close = 0
        THEN [matched |-> FALSE, group |-> << >>]
        ELSE [matched |-> TRUE, group |-> SubSeq(text, open + Len(FENCE_HTML), close - 1)]

\* The value of htmlCode once the extraction effect has run for a message
\* (useState(null), then the useEffect on [message.text, isUser]).
htmlCode(message) ==
    LET isUser == message.sender = USER
        match  == MatchHtmlFence(message.text)
    IN  IF ~isUser /\ includes(message.text, FENCE_HTML)
        THEN IF match.matched /\ match.group # << >>
             THEN SomeHtmlCode(trim(match.group))
             ELSE NoHtmlCode
        ELSE IF ~isUser /\ includes(message.text, DOCTYPE)
             THEN SomeHtmlCode(message.text)
             ELSE NoHtmlCode

\* Variant of PreviewButtonShown: htmlCode !== null for the truthiness test.
PreviewButtonShown_nonNull(message) == ~htmlCode(message).null

\* {htmlCode && onPreview && (<button ...>)}: App always passes onPreview.
PreviewButtonShown(message) ==
    LET h == htmlCode(message) IN ~h.null /\ h.code # << >>

----------------------------------------------------------------------------
(* Bounds and the inputs the environment supplies.                        *)

\* Longest conversation explored (welcome message included).
MaxMessages == 3

\* Largest value of the millisecond clock Date.now().
MaxClock == 1

\* Largest project library explored.
MaxProjects == 2

\* Longest history handed to sendMessageToGemini in the transport specification.
MaxHistory == 2

\* Most words in an input of the classifier specification.
MaxWords == 2

\* Longest conversation of the conversation specification (two exchanges).
MaxConversation == 5

\* Most speech-recognition sessions alive at once.
MaxSessions == 2

\* Longest text dictation grows the chat input to.
MaxInputLength == 30

\* Playbacks the auto-read timer is followed through, per message.
MaxAutoReads == 2

\* "mənə Bakının şəklini çək"
TEXT_SCENARIO ==
    <<109, 601, 110, 601, 32, 66, 97, 107, 305, 110, 305, 110, 32, 351, 601, 107, 108, 105,
    110, 105, 32, 231, 601, 107>>

\* What the user types into the chat input.
TypedTexts == {<< >>, SPACE, TEXT_SCENARIO}

\* The languages the user picks among on the language screen.
PickedLanguages == {"az", "en"}

\* Base64 payloads: a picked file, and the bytes the image endpoint returns.
PickedFiles == {"FILE_BASE64"}
GeneratedImages == {"IMAGE_BYTES"}

\* "Buyur"
RESPONSE_PLAIN ==
    <<66, 117, 121, 117, 114>>

\* "Buyur ```html\n<p>a</p>\n``` son"
RESPONSE_FENCED ==
    <<66, 117, 121, 117, 114, 32, 96, 96, 96, 104, 116, 109, 108, 10, 60, 112, 62, 97, 60,
    47, 112, 62, 10, 96, 96, 96, 32, 115, 111, 110>>

\* "```html<!DOCTYPE html><p>b</p>```"
RESPONSE_FENCED_DOCTYPE ==
    <<96, 96, 96, 104, 116, 109, 108, 60, 33, 68, 79, 67, 84, 89, 80, 69, 32, 104, 116, 109,
    108, 62, 60, 112, 62, 98, 60, 47, 112, 62, 96, 96, 96>>

\* "```html \n``` ```html<b>c</b>```"
RESPONSE_BLANK_THEN_FENCED ==
    <<96, 96, 96, 104, 116, 109, 108, 32, 10, 96, 96, 96, 32, 96, 96, 96, 104, 116, 109,
    108, 60, 98, 62, 99, 60, 47, 98, 62, 96, 96, 96>>

\* "<!DOCTYPE html><p>d</p>"
RESPONSE_DOCTYPE ==
    <<60, 33, 68, 79, 67, 84, 89, 80, 69, 32, 104, 116, 109, 108, 62, 60, 112, 62, 100, 60,
    47, 112, 62>>

\* "```html<!DOCTYPE html><p>e</p>"
RESPONSE_UNCLOSED ==
    <<96, 96, 96, 104, 116, 109, 108, 60, 33, 68, 79, 67, 84, 89, 80, 69, 32, 104, 116, 109,
    108, 62, 60, 112, 62, 101, 60, 47, 112, 62>>

\* response.text of the text endpoint (the empty string: a blocked response).
Responses ==
    {<< >>, RESPONSE_PLAIN, RESPONSE_FENCED, RESPONSE_FENCED_DOCTYPE,
     RESPONSE_BLANK_THEN_FENCED, RESPONSE_DOCTYPE, RESPONSE_UNCLOSED}

\* "Sayt 1"
NAME_SITE ==
    <<83, 97, 121, 116, 32, 49>>

\* What the user types into the project-name input of the save dialog.
ProjectNames == {<< >>, SPACE, NAME_SITE}

\* "Failed to fetch"
ERROR_FETCH ==
    <<70, 97, 105, 108, 101, 100, 32, 116, 111, 32, 102, 101, 116, 99, 104>>

\* "Şəkil yaradıla bilmədi"
ERROR_NO_IMAGE ==
    <<350, 601, 107, 105, 108, 32, 121, 97, 114, 97, 100, 305, 108, 97, 32, 98, 105, 108,
    109, 601, 100, 105>>

\* error.message of what the endpoints' SDK calls throw (one without a message).
TransportErrors == {<< >>, ERROR_FETCH}

\* "salam"
TRANSCRIPT ==
    <<115, 97, 108, 97, 109>>

\* event.results[0][0].transcript of a recognition result.
Transcripts == {TRANSCRIPT}

\* Values of the speed slider of the settings overlay, in tenths.
Rates == {11, 15}

\* The text of the alert of toggleListening, without its diacritics.
ALERT_NO_RECOGNITION == "Sizin brauzeriniz sesli girisi desteklemir."

\* "sbef", what the keydown listener waits for.
KEY_SBEF == <<115, 98, 101, 102>>

\* Runs of keys the user types, each key as the code units of e.key:
\* s b e f, S B E F, and s b e.
KeyRuns ==
    { << <<115>>, <<98>>, <<101>>, <<102>> >>,
      << <<83>>, <<66>>, <<69>>, <<70>> >>,
      << <<115>>, <<98>>, <<101>> >> }

----------------------------------------------------------------------------
(* State of the App component, and of the two endpoints it calls.         *)

VARIABLES
    selectedLanguage,   \* useState<Language | null>(null)
    messages,           \* useState<Message[]>([])
    inputValue,         \* useState('')
    isLoading,          \* useState(false)
    attachment,         \* useState<string | null>(null)
    currentView,        \* useState<View>('chat')
    projects,           \* useState<Project[]>([])
    previewCode,        \* useState<string>('')
    projectNameInput,   \* useState('')
    showSaveDialog,     \* useState(false)
    now,                \* the value Date.now() returns
    inflight,           \* endpoint calls awaiting their result, oldest first
    alertShown,         \* the text of the open window.alert box, or NULL
    showSettings,       \* useState(false)
    showMemory,         \* useState(false)
    voiceSettings,      \* useState<VoiceSettings>({...})
    isListening,        \* useState(false)
    recognitions,       \* the SpeechRecognition sessions started and not yet ended
    recognitionSupported, \* window.SpeechRecognition || window.webkitSpeechRecognition
    isSpeaking,         \* the mounted ChatMessage components whose isSpeaking is true
    autoReadTimer,      \* the pending setTimeout of the auto-read effect
    synthQueue,         \* the utterance queue of window.speechSynthesis
    endPending,         \* components awaiting the error event of a cancelled utterance
    autoReads,          \* per message, the playbacks the auto-read timer started
    arg,                \* argument record of the function under test
    result              \* what the function under test returned

vars ==
    <<selectedLanguage, messages, inputValue, isLoading, attachment, currentView,
      projects, previewCode, projectNameInput, showSaveDialog, now, inflight,
      alertShown, showSettings, showMemory, voiceSettings, isListening,
      recognitions, recognitionSupported, isSpeaking, autoReadTimer, synthQueue,
      endPending, autoReads, arg, result>>

appVars ==
    <<selectedLanguage, messages, inputValue, isLoading, attachment, currentView,
      projects, previewCode, projectNameInput, showSaveDialog, now, inflight,
      alertShown, showSettings, showMemory, voiceSettings, isListening,
      recognitions, recognitionSupported, isSpeaking, autoReadTimer, synthQueue,
      endPending, autoReads>>

overlayVars == <<showSettings, showMemory>>

listenVars == <<isListening, recognitions, recognitionSupported>>

speechVars == <<isSpeaking, autoReadTimer, synthQueue, endPending, autoReads>>

harnessVars == <<arg, result>>

\* The harness is idle while the application runs.
Idle == [fn |-> "none"]

\* No auto-read timer is pending.
NoTimer == [pending |-> FALSE, index |-> 0, isSpeaking |-> FALSE]

\* The state of a freshly mounted App; pitch and rate are in tenths (1.0, 1.1).
\* What the browser supports is not the App's to choose: each specification
\* fixes recognitionSupported in its own initial predicate.
AppInit ==
    /\ selectedLanguage = NULL
    /\ messages = << >>
    /\ inputValue = << >>
    /\ isLoading = FALSE
    /\ attachment = NULL
    /\ currentView = "chat"
    /\ projects = << >>
    /\ previewCode = << >>
    /\ projectNameInput = << >>
    /\ showSaveDialog = FALSE
    /\ now = 0
    /\ inflight = << >>
    /\ alertShown = NULL
    /\ showSettings = FALSE
    /\ showMemory = FALSE
    /\ voiceSettings = [pitch |-> 10, rate |-> 11, voiceURI |-> NULL, autoRead |-> FALSE]
    /\ isListening = FALSE
    /\ recognitions = << >>
    /\ isSpeaking = {}
    /\ autoReadTimer = NoTimer
    /\ synthQueue = << >>
    /\ endPending = {}
    /\ autoReads = [index \in 1..MaxConversation |-> 0]

Init ==
    /\ AppInit
    /\ recognitionSupported = TRUE
    /\ arg = Idle
    /\ result = Idle

\* Date.now().toString() and (Date.now() + 1).toString()
DateNowToString(t) == ToString(t)

\* The chat screen (renderChat) is on display and takes events: a language is
\* chosen, the view is 'chat', and no alert box blocks the page.
ChatRendered ==
    /\ alertShown = NULL
    /\ selectedLanguage # NULL
    /\ currentView = "chat"

\* The conversation specification follows a conversation of up to
\* MaxConversation messages, the other specifications one of up to MaxMessages.
MessageBound ==
    IF arg.fn \in {"conversation", "library"} THEN MaxConversation ELSE MaxMessages

----------------------------------------------------------------------------
(* Rendering: the ChatMessage components and their auto-read effect.      *)

\* {currentView === 'chat' && renderChat()} below the language screen: the
\* ChatMessage components exist exactly while this holds.
ChatMounted(language, view) == language # NULL /\ view = "chat"

\* An utterance whose component has unmounted: its onend and onerror handlers
\* set the state of a component that no longer exists.
Orphaned(queue) == [k \in 1..Len(queue) |-> [queue[k] EXCEPT !.live = FALSE]]

\* What React does after a handler has set the App's state. Unmounting the chat
\* drops every component's isSpeaking and clears the pending timer; the
\* auto-read effect of a component runs when it mounts and when isLatest or
\* voiceSettings.autoRead changed, first clearing the timer its last run set,
\* and sets a timer whose callback is the speakMessage of that render, which
\* has that render's isSpeaking in its closure. Only the latest message's
\* component can hold a timer.
afterRender ==
    LET wasMounted == ChatMounted(selectedLanguage, currentView)
        isMounted  == ChatMounted(selectedLanguage', currentView')
        latest     == Len(messages')
        kept       == IF wasMounted /\ isMounted THEN isSpeaking ELSE {}
        sameDeps   == /\ wasMounted
                      /\ latest = Len(messages)
                      /\ voiceSettings'.autoRead = voiceSettings.autoRead
    IN  /\ isSpeaking' = kept
        /\ autoReadTimer' =
               IF ~isMounted \/ latest = 0 THEN NoTimer
               ELSE IF sameDeps THEN autoReadTimer
               ELSE IF messages'[latest].sender # USER /\ voiceSettings'.autoRead
                    THEN [pending |-> TRUE, index |-> latest,
                          isSpeaking |-> latest \in kept]
                    ELSE NoTimer
        /\ synthQueue' = IF wasMounted /\ ~isMounted THEN Orphaned(synthQueue)
                         ELSE synthQueue
        /\ endPending' = IF wasMounted /\ ~isMounted THEN {} ELSE endPending
        /\ autoReads' = autoReads

----------------------------------------------------------------------------
(* Language selection, input field, attachment.                           *)

handleLanguageSelect(lang) ==
    /\ alertShown = NULL
    /\ selectedLanguage = NULL
    /\ selectedLanguage' = lang
    /\ messages' = << [id         |-> "welcome",
                       sender     |-> BOT,
                       text       |-> WELCOME_MESSAGES(lang),
                       timestamp  |-> now,
                       isError    |-> FALSE,
                       attachment |-> NULL] >>
    /\ UNCHANGED <<inputValue, isLoading, attachment, currentView, projects,
                   previewCode, projectNameInput, showSaveDialog, now, inflight,
                   alertShown, harnessVars,
                   overlayVars, voiceSettings, listenVars>>
    /\ afterRender

\* onChange of the chat input
setInputValue(value) ==
    /\ ChatRendered
    /\ inputValue' = value
    /\ UNCHANGED <<selectedLanguage, messages, isLoading, attachment, currentView,
                   projects, previewCode, projectNameInput, showSaveDialog, now,
                   inflight, alertShown, harnessVars,
                   overlayVars, voiceSettings, listenVars>>
    /\ afterRender

\* handleFileChange, up to reader.onloadend
handleFileChange(base64) ==
    /\ ChatRendered
    /\ attachment' = base64
    /\ UNCHANGED <<selectedLanguage, messages, inputValue, isLoading, currentView,
                   projects, previewCode, projectNameInput, showSaveDialog, now,
                   inflight, alertShown, harnessVars,
                   overlayVars, voiceSettings, listenVars>>
    /\ afterRender

\* the remove button of the attachment preview
removeAttachment ==
    /\ ChatRendered
    /\ Truthy(attachment)
    /\ attachment' = NULL
    /\ UNCHANGED <<selectedLanguage, messages, inputValue, isLoading, currentView,
                   projects, previewCode, projectNameInput, showSaveDialog, now,
                   inflight, alertShown, harnessVars,
                   overlayVars, voiceSettings, listenVars>>
    /\ afterRender

----------------------------------------------------------------------------
(* Submission: handleSendMessage up to its first await.                   *)

\* const textToSend = textOverride || inputValue.trim(); an absent override is
\* the empty string (both are falsy).
textToSend(textOverride) ==
    IF textOverride # << >> THEN textOverride ELSE trim(inputValue)

\* Variant of SendRejected: the busy flag is not consulted.
SendRejected_noBusyCheck(textOverride) ==
    \/ (textToSend(textOverride) = << >> /\ ~Truthy(attachment))
    \/ ~Truthy(selectedLanguage)

\* Variant of SendRejected: a submission without text and attachment passes.
SendRejected_acceptingBlank(textOverride) ==
    \/ isLoading
    \/ ~Truthy(selectedLanguage)

\* if ((!textToSend && !attachment) || isLoading || !selectedLanguage) return;
SendRejected(textOverride) ==
    \/ (textToSend(textOverride) = << >> /\ ~Truthy(attachment))
    \/ isLoading
    \/ ~Truthy(selectedLanguage)

\* const newUserMessage: Message = {...}
newUserMessage(textOverride) ==
    [id         |-> DateNowToString(now),
     sender     |-> USER,
     text       |-> textToSend(textOverride),
     timestamp  |-> now,
     isError    |-> FALSE,
     attachment |-> IF Truthy(attachment) THEN attachment ELSE NULL]

\* Variant of TakesImagePath: the classifier alone decides.
TakesImagePath_classifierOnly(text, currentAttachment) ==
    isImageGenerationRequest(text)

\* The branch on isImageGenerationRequest(textToSend) && !currentAttachment
TakesImagePath(text, currentAttachment) ==
    isImageGenerationRequest(text) /\ ~Truthy(currentAttachment)

\* The call made before the await: generateImage(textToSend), or
\* sendMessageToGemini([...messages, newUserMessage], textToSend,
\* currentAttachment, langMap[selectedLanguage]).
EndpointCall(textOverride) ==
    LET text == textToSend(textOverride)
        currentAttachment == attachment
    IN  IF TakesImagePath(text, currentAttachment)
        THEN [endpoint |-> "generateImages",
              prompt   |-> text,
              contents |-> << >>,
              language |-> << >>]
        ELSE [endpoint |-> "generateContent",
              prompt   |-> << >>,
              contents |-> sendMessageToGemini(
                               Append(messages, newUserMessage(textOverride)),
                               text, currentAttachment),
              language |-> langMap(selectedLanguage)]

handleSendMessage(textOverride) ==
    IF SendRejected(textOverride)
    THEN UNCHANGED vars
    ELSE /\ Len(messages) + 2 <= MessageBound
         /\ inputValue' = << >>
         /\ attachment' = NULL
         /\ messages' = Append(messages, newUserMessage(textOverride))
         /\ isLoading' = TRUE
         /\ inflight' = Append(inflight, EndpointCall(textOverride))
         /\ UNCHANGED <<selectedLanguage, currentView, projects, previewCode,
                        projectNameInput, showSaveDialog, now, alertShown,
                        harnessVars,
                        overlayVars, voiceSettings, listenVars>>
         /\ afterRender

\* The send button: disabled={(!inputValue.trim() && !attachment) || isLoading}
clickSend ==
    /\ ChatRendered
    /\ ~((trim(inputValue) = << >> /\ ~Truthy(attachment)) \/ isLoading)
    /\ handleSendMessage(<< >>)

\* handleKeyPress with Enter (without Shift) in the chat input
handleKeyPress ==
    /\ ChatRendered
    /\ handleSendMessage(<< >>)

\* Every text a submission can carry as its override: none, or a suggestion.
Overrides ==
    {<< >>} \cup { SUGGESTIONS(l)[i] : l \in LANGUAGES, i \in 1..4 }

\* handleSendMessage called while the language screen is on display: no element
\* of that screen calls it, and the guard of the handler covers the case.
invokeHandleSendMessage(textOverride) ==
    /\ alertShown = NULL
    /\ selectedLanguage = NULL
    /\ handleSendMessage(textOverride)

\* A suggestion button: rendered while messages.length < 3 && !isLoading
clickSuggestion ==
    /\ ChatRendered
    /\ Len(messages) < 3 /\ ~isLoading
    /\ \E idx \in 1..Len(SUGGESTIONS(selectedLanguage)) :
           handleSendMessage(SUGGESTIONS(selectedLanguage)[idx])

----------------------------------------------------------------------------
(* Completion: handleSendMessage after the await.                         *)

botMessage(text, isError, imageBytes) ==
    [id         |-> DateNowToString(now + 1),
     sender     |-> BOT,
     text       |-> text,
     timestamp  |-> now,
     isError    |-> isError,
     attachment |-> imageBytes]

\* error.message || "Sistem xətası."
errorText(message) == IF message # << >> THEN message ELSE FALLBACK_ERROR_TEXT

\* Variant of Complete: the call stays outstanding after its continuation ran.
Complete_keepingCall(message) ==
    /\ messages' = Append(messages, message)
    /\ isLoading' = FALSE
    /\ inflight' = inflight
    /\ UNCHANGED <<selectedLanguage, inputValue, attachment, currentView, projects,
                   previewCode, projectNameInput, showSaveDialog, now, alertShown,
                   harnessVars,
                   overlayVars, voiceSettings, listenVars>>
    /\ afterRender

\* The continuation of the oldest call with the bot message it appends; the
\* finally block clears the busy flag.
Complete(message) ==
    /\ messages' = Append(messages, message)
    /\ isLoading' = FALSE
    /\ inflight' = Tail(inflight)
    /\ UNCHANGED <<selectedLanguage, inputValue, attachment, currentView, projects,
                   previewCode, projectNameInput, showSaveDialog, now, alertShown,
                   harnessVars,
                   overlayVars, voiceSettings, listenVars>>
    /\ afterRender

\* generateImage resolves with response.generatedImages[0].image.imageBytes
imageResolved ==
    /\ alertShown = NULL
    /\ inflight # << >> /\ Head(inflight).endpoint = "generateImages"
    /\ \E imageBytes \in GeneratedImages :
           Complete(botMessage(IMAGE_REPLY_TEXT, FALSE, imageBytes))

\* catch (error) { throw new Error("..."); } of generateImage: what it throws
\* for the error it caught
generateImageThrows(error) == IMAGE_ERROR_MESSAGE

\* Variant of sendMessageToGeminiThrows: catch (error) { throw error; }
sendMessageToGeminiThrows_rethrowing(error) == error

\* catch (error) { throw new Error("..."); } of sendMessageToGemini
sendMessageToGeminiThrows(error) == TEXT_ERROR_MESSAGE

\* generateImage throws (the endpoint failed or returned no image)
imageRejected ==
    /\ alertShown = NULL
    /\ inflight # << >> /\ Head(inflight).endpoint = "generateImages"
    /\ \E error \in TransportErrors \cup {ERROR_NO_IMAGE} :
           Complete(botMessage(errorText(generateImageThrows(error)), TRUE, NULL))

\* sendMessageToGemini resolves: response.text, or the blocked notice when empty
textResolved ==
    /\ alertShown = NULL
    /\ inflight # << >> /\ Head(inflight).endpoint = "generateContent"
    /\ \E text \in Responses :
           Complete(botMessage(IF text = << >> THEN BLOCKED_NOTICE ELSE text,
                               FALSE, NULL))

\* sendMessageToGemini throws
textRejected ==
    /\ alertShown = NULL
    /\ inflight # << >> /\ Head(inflight).endpoint = "generateContent"
    /\ \E error \in TransportErrors :
           Complete(botMessage(errorText(sendMessageToGeminiThrows(error)), TRUE, NULL))

----------------------------------------------------------------------------
(* Views, preview and the project library.                                *)

handlePreview(code) ==
    /\ previewCode' = code
    /\ currentView' = "preview"
    /\ UNCHANGED <<selectedLanguage, messages, inputValue, isLoading, attachment,
                   projects, projectNameInput, showSaveDialog, now, inflight,
                   alertShown, harnessVars,
                   overlayVars, voiceSettings, listenVars>>
    /\ afterRender

\* The LIVE PREVIEW button of a chat message: onPreview(htmlCode)
clickPreview ==
    /\ ChatRendered
    /\ \E idx \in 1..Len(messages) :
           /\ PreviewButtonShown(messages[idx])
           /\ handlePreview(htmlCode(messages[idx]).code)

\* Variant of setCurrentView: entering the chat starts a new conversation.
setCurrentView_clearingChat(view) ==
    /\ currentView' = view
    /\ messages' = IF view = "chat" THEN << >> ELSE messages
    /\ UNCHANGED <<selectedLanguage, inputValue, isLoading, attachment,
                   projects, previewCode, projectNameInput, showSaveDialog, now,
                   inflight, alertShown, harnessVars,
                   overlayVars, voiceSettings, listenVars>>
    /\ afterRender

setCurrentView(view) ==
    /\ currentView' = view
    /\ UNCHANGED <<selectedLanguage, messages, inputValue, isLoading, attachment,
                   projects, previewCode, projectNameInput, showSaveDialog, now,
                   inflight, alertShown, harnessVars,
                   overlayVars, voiceSettings, listenVars>>
    /\ afterRender

\* Variant of backToChat: leaving the preview empties previewCode.
backToChat_discarding ==
    /\ alertShown = NULL
    /\ selectedLanguage # NULL
    /\ currentView \in {"preview", "projects"}
    /\ currentView' = "chat"
    /\ previewCode' = IF currentView = "preview" THEN << >> ELSE previewCode
    /\ UNCHANGED <<selectedLanguage, messages, inputValue, isLoading, attachment,
                   projects, projectNameInput, showSaveDialog, now, inflight,
                   alertShown, harnessVars, overlayVars, voiceSettings, listenVars>>
    /\ afterRender

\* "Back to Chat" of the preview, "Back" and the empty-library link of the library
backToChat ==
    /\ alertShown = NULL
    /\ selectedLanguage # NULL
    /\ currentView \in {"preview", "projects"}
    /\ setCurrentView("chat")

\* Variant of HeaderRendered: the header is on display in every view.
HeaderRendered_inPreviewToo == TRUE

\* {currentView !== 'preview' && (<header ...>)}
HeaderRendered == currentView # "preview"

\* The projects button of the header, which is hidden in the preview
openProjects ==
    /\ alertShown = NULL
    /\ selectedLanguage # NULL
    /\ HeaderRendered
    /\ setCurrentView("projects")

\* SAVE PROJECT (true) and Cancel (false)
setShowSaveDialog(show) ==
    /\ alertShown = NULL
    /\ selectedLanguage # NULL
    /\ currentView = "preview"
    /\ show \/ showSaveDialog
    /\ showSaveDialog' = show
    /\ UNCHANGED <<selectedLanguage, messages, inputValue, isLoading, attachment,
                   currentView, projects, previewCode, projectNameInput, now,
                   inflight, alertShown, harnessVars,
                   overlayVars, voiceSettings, listenVars>>
    /\ afterRender

\* onChange of the project-name input of the save dialog
setProjectNameInput(value) ==
    /\ alertShown = NULL
    /\ selectedLanguage # NULL
    /\ currentView = "preview" /\ showSaveDialog
    /\ projectNameInput' = value
    /\ UNCHANGED <<selectedLanguage, messages, inputValue, isLoading, attachment,
                   currentView, projects, previewCode, showSaveDialog, now,
                   inflight, alertShown, harnessVars,
                   overlayVars, voiceSettings, listenVars>>
    /\ afterRender

\* const newProject: Project = {...}
newProject ==
    [id        |-> DateNowToString(now),
     name      |-> projectNameInput,
     code      |-> previewCode,
     createdAt |-> now]

\* Variant of WithNewProject: [...prev, newProject]
WithNewProject_atTail(prev, project) == Append(prev, project)

\* setProjects(prev => [newProject, ...prev])
WithNewProject(prev, project) == <<project>> \o prev

\* Variant of NameRejected: if (!projectNameInput) return;
NameRejected_noTrim == projectNameInput = << >>

\* if (!projectNameInput.trim()) return;
NameRejected == trim(projectNameInput) = << >>

\* The Save button of the save dialog
saveProject ==
    /\ alertShown = NULL
    /\ selectedLanguage # NULL
    /\ currentView = "preview" /\ showSaveDialog
    /\ IF NameRejected
       THEN UNCHANGED vars
       ELSE /\ Len(projects) < MaxProjects
            /\ projects' = WithNewProject(projects, newProject)
            /\ showSaveDialog' = FALSE
            /\ projectNameInput' = << >>
            /\ alertShown' = "Project Saved to Library!"
            /\ UNCHANGED <<selectedLanguage, messages, inputValue, isLoading,
                           attachment, currentView, previewCode, now, inflight,
                           harnessVars,
                           overlayVars, voiceSettings, listenVars>>
            /\ afterRender

\* The user closes the alert box; until then the page takes no event.
dismissAlert ==
    /\ alertShown # NULL
    /\ alertShown' = NULL
    /\ UNCHANGED <<selectedLanguage, messages, inputValue, isLoading, attachment,
                   currentView, projects, previewCode, projectNameInput,
                   showSaveDialog, now, inflight, harnessVars,
                   overlayVars, voiceSettings, listenVars>>
    /\ afterRender

\* The library (renderProjects) is on display.
LibraryRendered ==
    /\ alertShown = NULL
    /\ selectedLanguage # NULL
    /\ currentView = "projects"

\* Variant of loadProject: the view changes, the payload stays.
loadProject_keepingPayload ==
    /\ LibraryRendered
    /\ \E idx \in 1..Len(projects) : currentView' = "preview"
    /\ UNCHANGED <<selectedLanguage, messages, inputValue, isLoading, attachment,
                   projects, previewCode, projectNameInput, showSaveDialog, now,
                   inflight, alertShown, harnessVars, overlayVars, voiceSettings,
                   listenVars>>
    /\ afterRender

\* The Open button of a project card
loadProject ==
    /\ LibraryRendered
    /\ \E idx \in 1..Len(projects) :
           /\ previewCode' = projects[idx].code
           /\ currentView' = "preview"
    /\ UNCHANGED <<selectedLanguage, messages, inputValue, isLoading, attachment,
                   projects, projectNameInput, showSaveDialog, now, inflight,
                   alertShown, harnessVars,
                   overlayVars, voiceSettings, listenVars>>
    /\ afterRender

\* prev.filter(p => p.id !== id)
WithoutProject(prev, id) ==
    LET keep == { i \in 1..Len(prev) : prev[i].id # id }
        F[k \in 0..Len(prev)] ==
            IF k = 0 THEN << >>
            ELSE IF k \in keep THEN Append(F[k - 1], prev[k]) ELSE F[k - 1]
    IN  F[Len(prev)]

\* The delete button of a project card: deleteProject(p.id)
deleteProject ==
    /\ LibraryRendered
    /\ \E idx \in 1..Len(projects) :
           projects' = WithoutProject(projects, projects[idx].id)
    /\ UNCHANGED <<selectedLanguage, messages, inputValue, isLoading, attachment,
                   currentView, previewCode, projectNameInput, showSaveDialog, now,
                   inflight, alertShown, harnessVars,
                   overlayVars, voiceSettings, listenVars>>
    /\ afterRender

\* Time passes: Date.now() never decreases.
tick ==
    /\ now < MaxClock
    /\ now' = now + 1
    /\ UNCHANGED <<selectedLanguage, messages, inputValue, isLoading, attachment,
                   currentView, projects, previewCode, projectNameInput,
                   showSaveDialog, inflight, alertShown, harnessVars,
                   overlayVars, voiceSettings, listenVars>>
    /\ afterRender

----------------------------------------------------------------------------
(* Overlays: the settings modal and the admin panel.                      *)

\* The settings button of the header (true); the close button and the backdrop
\* of the settings modal (false)
setShowSettings(show) ==
    /\ alertShown = NULL
    /\ selectedLanguage # NULL
    /\ IF show THEN HeaderRendered ELSE showSettings
    /\ showSettings' = show
    /\ UNCHANGED <<selectedLanguage, messages, inputValue, isLoading, attachment,
                   currentView, projects, previewCode, projectNameInput,
                   showSaveDialog, now, inflight, alertShown, showMemory,
                   voiceSettings, listenVars, harnessVars>>
    /\ afterRender

\* (buffer + e.key).slice(-4).toLowerCase()
KeyBuffer(buffer, key) ==
    LET joined == buffer \o key
    IN  toLowerCase(IF Len(joined) <= 4 THEN joined
                    ELSE SubSeq(joined, Len(joined) - 3, Len(joined)))

\* The buffer of the keydown listener after each key of a run of keys.
RECURSIVE KeyBuffers(_, _)
KeyBuffers(buffer, keys) ==
    IF keys = << >> THEN << >>
    ELSE LET next == KeyBuffer(buffer, Head(keys))
         IN  <<next>> \o KeyBuffers(next, Tail(keys))

\* handleKeyDown for a run of keys typed anywhere in the window: the admin panel
\* opens when the buffer reads 'sbef'. The buffer belongs to the listener and
\* is followed over the run only.
handleKeyDown(keys) ==
    /\ alertShown = NULL
    /\ showMemory' = (showMemory \/ \E k \in 1..Len(keys) :
                                       KeyBuffers(<< >>, keys)[k] = KEY_SBEF)
    /\ UNCHANGED <<selectedLanguage, messages, inputValue, isLoading, attachment,
                   currentView, projects, previewCode, projectNameInput,
                   showSaveDialog, now, inflight, alertShown, showSettings,
                   voiceSettings, listenVars, harnessVars>>
    /\ afterRender

\* The backdrop of the admin panel: setShowMemory(false)
closeMemory ==
    /\ alertShown = NULL
    /\ selectedLanguage # NULL
    /\ showMemory
    /\ showMemory' = FALSE
    /\ UNCHANGED <<selectedLanguage, messages, inputValue, isLoading, attachment,
                   currentView, projects, previewCode, projectNameInput,
                   showSaveDialog, now, inflight, alertShown, showSettings,
                   voiceSettings, listenVars, harnessVars>>
    /\ afterRender

\* A control of the settings modal sets voiceSettings.
setVoiceSettings(settings) ==
    /\ alertShown = NULL
    /\ selectedLanguage # NULL
    /\ showSettings
    /\ voiceSettings' = settings
    /\ UNCHANGED <<selectedLanguage, messages, inputValue, isLoading, attachment,
                   currentView, projects, previewCode, projectNameInput,
                   showSaveDialog, now, inflight, alertShown, overlayVars,
                   listenVars, harnessVars>>
    /\ afterRender

\* The auto-read switch: prev => ({...prev, autoRead: !prev.autoRead})
toggleAutoRead ==
    /\ showSettings
    /\ setVoiceSettings([voiceSettings EXCEPT !.autoRead = ~voiceSettings.autoRead])

\* The speed slider: {...voiceSettings, rate: parseFloat(e.target.value)}
setRate(rate) ==
    /\ rate # voiceSettings.rate
    /\ setVoiceSettings([voiceSettings EXCEPT !.rate = rate])

----------------------------------------------------------------------------
(* Speech synthesis: speakMessage of a ChatMessage and the engine's events.*)

\* window.speechSynthesis.cancel(): the queue is emptied
synthCancel(queue) == << >>

\* window.speechSynthesis.speak(utterance): the utterance joins the queue
synthSpeak(queue, utterance) == Append(queue, utterance)

\* The components whose utterance cancel() removes: each gets the error event
\* of its utterance later on, unless it has unmounted.
Interrupted(queue) ==
    { queue[k].index : k \in { n \in 1..Len(queue) : queue[n].live } }

\* Variant of speakMessage: speak() without the cancel() before it.
speakMessage_withoutCancel(index, closureIsSpeaking) ==
    IF closureIsSpeaking
    THEN /\ synthQueue' = synthCancel(synthQueue)
         /\ endPending' = endPending \cup Interrupted(synthQueue)
         /\ isSpeaking' = isSpeaking \ {index}
    ELSE /\ isSpeaking' = isSpeaking \cup {index}
         /\ synthQueue' = synthSpeak(synthQueue, [index |-> index, live |-> TRUE])
         /\ endPending' = endPending

\* speakMessage of the component of messages[index], called with the isSpeaking
\* of the render it was created in: a speaking component cancels and stops,
\* any other cancels and speaks its own utterance.
speakMessage(index, closureIsSpeaking) ==
    IF closureIsSpeaking
    THEN /\ synthQueue' = synthCancel(synthQueue)
         /\ endPending' = endPending \cup Interrupted(synthQueue)
         /\ isSpeaking' = isSpeaking \ {index}
    ELSE /\ isSpeaking' = isSpeaking \cup {index}
         /\ synthQueue' = synthSpeak(synthCancel(synthQueue),
                                     [index |-> index, live |-> TRUE])
         /\ endPending' = endPending \cup Interrupted(synthQueue)

\* The speak button of a bot message: onClick={speakMessage} of the current render
clickSpeak(index) ==
    /\ ChatRendered
    /\ index \in 1..Len(messages)
    /\ messages[index].sender # USER
    /\ speakMessage(index, index \in isSpeaking)
    /\ UNCHANGED <<selectedLanguage, messages, inputValue, isLoading, attachment,
                   currentView, projects, previewCode, projectNameInput,
                   showSaveDialog, now, inflight, alertShown, overlayVars,
                   voiceSettings, listenVars, autoReadTimer, autoReads,
                   harnessVars>>

\* The 500 ms timer of the auto-read effect fires: speakMessage of the render
\* that set it. autoReads counts the playbacks it starts.
autoReadTimerFired ==
    /\ alertShown = NULL
    /\ autoReadTimer.pending
    /\ autoReadTimer.isSpeaking \/ autoReads[autoReadTimer.index] < MaxAutoReads
    /\ speakMessage(autoReadTimer.index, autoReadTimer.isSpeaking)
    /\ autoReadTimer' = NoTimer
    /\ autoReads' = IF autoReadTimer.isSpeaking THEN autoReads
                    ELSE [autoReads EXCEPT ![autoReadTimer.index] = @ + 1]
    /\ UNCHANGED <<selectedLanguage, messages, inputValue, isLoading, attachment,
                   currentView, projects, previewCode, projectNameInput,
                   showSaveDialog, now, inflight, alertShown, overlayVars,
                   voiceSettings, listenVars, harnessVars>>

\* The utterance being spoken reaches its end: utterance.onend
utteranceEnded ==
    /\ alertShown = NULL
    /\ synthQueue # << >>
    /\ synthQueue' = Tail(synthQueue)
    /\ isSpeaking' = IF Head(synthQueue).live
                     THEN isSpeaking \ {Head(synthQueue).index}
                     ELSE isSpeaking
    /\ UNCHANGED <<selectedLanguage, messages, inputValue, isLoading, attachment,
                   currentView, projects, previewCode, projectNameInput,
                   showSaveDialog, now, inflight, alertShown, overlayVars,
                   voiceSettings, listenVars, autoReadTimer, endPending,
                   autoReads, harnessVars>>

\* The error event of a cancelled utterance arrives: utterance.onerror
utteranceInterrupted ==
    /\ alertShown = NULL
    /\ \E index \in endPending :
           /\ isSpeaking' = isSpeaking \ {index}
           /\ endPending' = endPending \ {index}
    /\ UNCHANGED <<selectedLanguage, messages, inputValue, isLoading, attachment,
                   currentView, projects, previewCode, projectNameInput,
                   showSaveDialog, now, inflight, alertShown, overlayVars,
                   voiceSettings, listenVars, autoReadTimer, synthQueue,
                   autoReads, harnessVars>>

----------------------------------------------------------------------------
(* Speech recognition: toggleListening and the events of its sessions.    *)

\* langCodeMap[selectedLanguage], 'az-AZ' when no language is selected
langCodeMap(lang) ==
    CASE lang = "az" -> "az-AZ"
      [] lang = "tr" -> "tr-TR"
      [] lang = "en" -> "en-US"
      [] lang = "ru" -> "ru-RU"
      [] OTHER -> "az-AZ"

\* Variant of WithTranscript: the separator is added to an empty field too.
WithTranscript_alwaysSpaced(prev, speechResult) == prev \o SPACE \o speechResult

\* prev + (prev ? ' ' : '') + speechResult
WithTranscript(prev, speechResult) ==
    prev \o (IF prev # << >> THEN SPACE ELSE << >>) \o speechResult

\* Session k of the recognitions with its state replaced.
SessionMoved(k, state) == [recognitions EXCEPT ![k].state = state]

\* The recognitions without session k.
SessionRemoved(k) ==
    SubSeq(recognitions, 1, k - 1) \o SubSeq(recognitions, k + 1, Len(recognitions))

\* The sessions after recognition.start() of another one in an engine that
\* runs one session at a time: those under way are aborted, and get their
\* error event and then their end event. Other engines leave them running.
SessionsAborted ==
    [k \in 1..Len(recognitions) |->
        IF recognitions[k].state \in {"starting", "listening"}
        THEN [recognitions[k] EXCEPT !.state = "aborted"]
        ELSE recognitions[k]]

\* The microphone button of the chat input
toggleListening ==
    /\ ChatRendered
    /\ IF isListening
       THEN /\ isListening' = FALSE
            /\ UNCHANGED <<recognitions, alertShown>>
       ELSE IF ~recognitionSupported
       THEN /\ alertShown' = ALERT_NO_RECOGNITION
            /\ UNCHANGED <<isListening, recognitions>>
       ELSE /\ Len(recognitions) < MaxSessions
            /\ \E sessions \in {recognitions, SessionsAborted} :
                   recognitions' = Append(sessions,
                                          [state |-> "starting",
                                           lang  |-> langCodeMap(selectedLanguage)])
            /\ UNCHANGED <<isListening, alertShown>>
    /\ UNCHANGED <<selectedLanguage, messages, inputValue, isLoading, attachment,
                   currentView, projects, previewCode, projectNameInput,
                   showSaveDialog, now, inflight, overlayVars, voiceSettings,
                   recognitionSupported, speechVars, harnessVars>>

\* recognition.onstart
recognitionStarted ==
    /\ alertShown = NULL
    /\ \E k \in 1..Len(recognitions) :
           /\ recognitions[k].state = "starting"
           /\ recognitions' = SessionMoved(k, "listening")
    /\ isListening' = TRUE
    /\ UNCHANGED <<selectedLanguage, messages, inputValue, isLoading, attachment,
                   currentView, projects, previewCode, projectNameInput,
                   showSaveDialog, now, inflight, alertShown, overlayVars,
                   voiceSettings, recognitionSupported, speechVars, harnessVars>>

\* recognition.onresult: the session has heard its one result and will end
recognitionResult(speechResult) ==
    /\ alertShown = NULL
    /\ \E k \in 1..Len(recognitions) :
           /\ recognitions[k].state = "listening"
           /\ recognitions' = SessionMoved(k, "ending")
    /\ Len(WithTranscript(inputValue, speechResult)) <= MaxInputLength
    /\ inputValue' = WithTranscript(inputValue, speechResult)
    /\ UNCHANGED <<selectedLanguage, messages, isLoading, attachment, currentView,
                   projects, previewCode, projectNameInput, showSaveDialog, now,
                   inflight, alertShown, overlayVars, voiceSettings, isListening,
                   recognitionSupported, speechVars, harnessVars>>

\* recognition.onerror: the session has failed and will end
recognitionError ==
    /\ alertShown = NULL
    /\ \E k \in 1..Len(recognitions) :
           /\ recognitions[k].state \in {"starting", "listening", "aborted"}
           /\ recognitions' = SessionMoved(k, "ending")
    /\ isListening' = FALSE
    /\ UNCHANGED <<selectedLanguage, messages, inputValue, isLoading, attachment,
                   currentView, projects, previewCode, projectNameInput,
                   showSaveDialog, now, inflight, alertShown, overlayVars,
                   voiceSettings, recognitionSupported, speechVars, harnessVars>>

\* recognition.onend: the session is over
recognitionEnded ==
    /\ alertShown = NULL
    /\ \E k \in 1..Len(recognitions) :
           /\ recognitions[k].state \in {"listening", "ending"}
           /\ recognitions' = SessionRemoved(k)
    /\ isListening' = FALSE
    /\ UNCHANGED <<selectedLanguage, messages, inputValue, isLoading, attachment,
                   currentView, projects, previewCode, projectNameInput,
                   showSaveDialog, now, inflight, alertShown, overlayVars,
                   voiceSettings, recognitionSupported, speechVars, harnessVars>>

----------------------------------------------------------------------------
(* The whole application but for speech and the two modal overlays.       *)

Next ==
    \/ \E lang \in PickedLanguages : handleLanguageSelect(lang)
    \/ \E value \in TypedTexts : setInputValue(value)
    \/ \E base64 \in PickedFiles : handleFileChange(base64)
    \/ removeAttachment
    \/ clickSend
    \/ handleKeyPress
    \/ clickSuggestion
    \/ imageResolved
    \/ imageRejected
    \/ textResolved
    \/ textRejected
    \/ clickPreview
    \/ backToChat
    \/ openProjects
    \/ \E show \in BOOLEAN : setShowSaveDialog(show)
    \/ \E value \in ProjectNames : setProjectNameInput(value)
    \/ saveProject
    \/ dismissAlert
    \/ loadProject
    \/ deleteProject
    \/ tick

Spec == Init /\ [][Next]_vars

----------------------------------------------------------------------------
(* The project library over two exchanges: the payloads of two bot        *)
(* messages can be previewed, saved and opened.                           *)

LibraryInit ==
    /\ AppInit
    /\ recognitionSupported = TRUE
    /\ arg = [fn |-> "library"]
    /\ result = [fn |-> "none"]

LibraryNext ==
    \/ \E lang \in PickedLanguages : handleLanguageSelect(lang)
    \/ \E value \in TypedTexts : setInputValue(value)
    \/ clickSend
    \/ clickSuggestion
    \/ textResolved
    \/ clickPreview
    \/ backToChat
    \/ openProjects
    \/ \E show \in BOOLEAN : setShowSaveDialog(show)
    \/ \E value \in ProjectNames : setProjectNameInput(value)
    \/ saveProject
    \/ dismissAlert
    \/ loadProject
    \/ deleteProject

SpecLibrary == LibraryInit /\ [][LibraryNext]_vars

----------------------------------------------------------------------------
(* The conversation on its own, over two exchanges.                       *)

ConversationInit ==
    /\ AppInit
    /\ recognitionSupported = TRUE
    /\ arg = [fn |-> "conversation"]
    /\ result = Idle

ConversationNext ==
    \/ \E lang \in PickedLanguages : handleLanguageSelect(lang)
    \/ \E value \in TypedTexts : setInputValue(value)
    \/ \E base64 \in PickedFiles : handleFileChange(base64)
    \/ removeAttachment
    \/ clickSend
    \/ handleKeyPress
    \/ clickSuggestion
    \/ \E textOverride \in Overrides : invokeHandleSendMessage(textOverride)
    \/ imageResolved
    \/ imageRejected
    \/ textResolved
    \/ textRejected
    \/ backToChat
    \/ openProjects
    \/ tick

SpecConversation == ConversationInit /\ [][ConversationNext]_vars

----------------------------------------------------------------------------
(* The chat messages and the speech-synthesis engine.                     *)

SpeechNext ==
    \/ \E lang \in PickedLanguages : handleLanguageSelect(lang)
    \/ clickSuggestion
    \/ imageResolved
    \/ textResolved
    \/ backToChat
    \/ openProjects
    \/ \E show \in BOOLEAN : setShowSettings(show)
    \/ toggleAutoRead
    \/ \E rate \in Rates : setRate(rate)
    \/ \E index \in 1..MaxMessages : clickSpeak(index)
    \/ autoReadTimerFired
    \/ utteranceEnded
    \/ utteranceInterrupted

SpecSpeech == Init /\ [][SpeechNext]_vars

----------------------------------------------------------------------------
(* The chat input with dictation, under the settings modal and the admin  *)
(* panel.                                                                 *)

ListenInit ==
    /\ AppInit
    /\ recognitionSupported \in BOOLEAN
    /\ arg = Idle
    /\ result = Idle

ListenNext ==
    \/ \E lang \in PickedLanguages : handleLanguageSelect(lang)
    \/ \E value \in TypedTexts : setInputValue(value)
    \/ toggleListening
    \/ recognitionStarted
    \/ \E speechResult \in Transcripts : recognitionResult(speechResult)
    \/ recognitionError
    \/ recognitionEnded
    \/ dismissAlert
    \/ \E show \in BOOLEAN : setShowSettings(show)
    \/ \E keys \in KeyRuns : handleKeyDown(keys)
    \/ closeMemory

SpecListen == ListenInit /\ [][ListenNext]_vars

----------------------------------------------------------------------------
(* The intent classifier on its own: inputs of up to MaxWords words.      *)

\* Words the classifier inputs are made of: verbs, subjects, an inflected subject, a word of neither list.
Words ==
    <<
    \* "çək"
      <<231, 601, 107>>,
    \* "hazırla"
      <<104, 97, 122, 305, 114, 108, 97>>,
    \* "draw"
      <<100, 114, 97, 119>>,
    \* "Generate"
      <<71, 101, 110, 101, 114, 97, 116, 101>>,
    \* "şəkil"
      <<351, 601, 107, 105, 108>>,
    \* "şəklini"
      <<351, 601, 107, 108, 105, 110, 105>>,
    \* "foto"
      <<102, 111, 116, 111>>,
    \* "IMAGE"
      <<73, 77, 65, 71, 69>>,
    \* "necəsən"
      <<110, 101, 99, 601, 115, 601, 110>> >>

\* The words of a word sequence joined by single spaces.
RECURSIVE JoinWords(_)
JoinWords(ws) ==
    IF ws = << >> THEN << >>
    ELSE IF Len(ws) = 1 THEN Words[ws[1]]
    ELSE Words[ws[1]] \o SPACE \o JoinWords(Tail(ws))

ClassifierInputs ==
    {TEXT_SCENARIO}
        \cup { JoinWords(ws) : ws \in UNION { [1..n -> 1..Len(Words)] : n \in 1..MaxWords } }

ClassifierInit ==
    /\ AppInit
    /\ recognitionSupported = TRUE
    /\ arg \in { [fn |-> "isImageGenerationRequest", text |-> t] : t \in ClassifierInputs }
    /\ result = [plain |-> {}, upperCased |-> {}]

\* isImageGenerationRequest(text)
classify ==
    /\ result.plain = {}
    /\ result' = [result EXCEPT !.plain = {isImageGenerationRequest(arg.text)}]
    /\ UNCHANGED <<appVars, arg>>

\* isImageGenerationRequest(text.toUpperCase())
classifyUpperCased ==
    /\ result.upperCased = {}
    /\ result' = [result EXCEPT
                     !.upperCased = {isImageGenerationRequest(toUpperCase(arg.text))}]
    /\ UNCHANGED <<appVars, arg>>

ClassifierNext ==
    \/ classify
    \/ classifyUpperCased

SpecClassifier == ClassifierInit /\ [][ClassifierNext]_vars

----------------------------------------------------------------------------
(* The transport client on its own: histories of up to MaxHistory entries.*)

\* "a"
TEXT_A ==
    <<97>>

\* "b"
TEXT_B ==
    <<98>>

\* Message records a history is made of: both senders, with and without text
\* and attachment.
HistoryMessages ==
    { [id         |-> "0",
       sender     |-> s,
       text       |-> t,
       timestamp  |-> 0,
       isError    |-> FALSE,
       attachment |-> a] : s \in {USER, BOT}, t \in {<< >>, TEXT_A, TEXT_B},
                           a \in {NULL} \cup PickedFiles }

Histories == UNION { [1..n -> HistoryMessages] : n \in 0..MaxHistory }

TransportInit ==
    /\ AppInit
    /\ recognitionSupported = TRUE
    /\ arg \in { [fn             |-> "sendMessageToGemini",
                  history        |-> h,
                  currentMessage |-> m,
                  imageBase64    |-> a] : h \in Histories, m \in {TEXT_A, TEXT_B},
                                          a \in {NULL} \cup PickedFiles }
    /\ result = [called |-> FALSE, contents |-> << >>]

\* sendMessageToGemini(history, currentMessage, imageBase64) up to the call of
\* ai.models.generateContent; result.contents is the contents it passes.
callSendMessageToGemini ==
    /\ ~result.called
    /\ result' = [called   |-> TRUE,
                  contents |-> sendMessageToGemini(arg.history, arg.currentMessage,
                                                   arg.imageBase64)]
    /\ UNCHANGED <<appVars, arg>>

TransportNext == callSendMessageToGemini

SpecTransport == TransportInit /\ [][TransportNext]_vars


----------------------------------------------------------------------------
(* The voice of an utterance on its own: voice lists of up to MaxVoices.  *)

\* Most voices the speech engine offers.
MaxVoices == 2

\* "Google"
GOOGLE ==
    <<71, 111, 111, 103, 108, 101>>

\* "tr"
LANG_TR ==
    <<116, 114>>

\* A language code as the code units the voice tags are searched for.
LanguageUnits(language) ==
    CASE language = "az" -> <<97, 122>>
      [] language = "tr" -> <<116, 114>>
      [] language = "en" -> <<101, 110>>
      [] language = "ru" -> <<114, 117>>

\* voiceURI "urn:en:samantha", name "Samantha", lang "en-US"
VOICE_EN ==
    [voiceURI |-> "urn:en:samantha",
     name     |-> <<83, 97, 109, 97, 110, 116, 104, 97>>,
     lang     |-> <<101, 110, 45, 85, 83>>]

\* voiceURI "urn:en:google", name "Google US English", lang "en-US"
VOICE_EN_GOOGLE ==
    [voiceURI |-> "urn:en:google",
     name     |-> <<71, 111, 111, 103, 108, 101, 32, 85, 83, 32, 69, 110, 103, 108, 105, 115, 104>>,
     lang     |-> <<101, 110, 45, 85, 83>>]

\* voiceURI "urn:tr:yelda", name "Yelda", lang "tr-TR"
VOICE_TR ==
    [voiceURI |-> "urn:tr:yelda",
     name     |-> <<89, 101, 108, 100, 97>>,
     lang     |-> <<116, 114, 45, 84, 82>>]

\* voiceURI "urn:tr:google", name "Google Türkçe", lang "tr-TR"
VOICE_TR_GOOGLE ==
    [voiceURI |-> "urn:tr:google",
     name     |-> <<71, 111, 111, 103, 108, 101, 32, 84, 252, 114, 107, 231, 101>>,
     lang     |-> <<116, 114, 45, 84, 82>>]

\* voiceURI "urn:az:banu", name "Banu", lang "az-AZ"
VOICE_AZ ==
    [voiceURI |-> "urn:az:banu",
     name     |-> <<66, 97, 110, 117>>,
     lang     |-> <<97, 122, 45, 65, 90>>]

\* voiceURI "urn:fr:thomas", name "Thomas", lang "fr-FR"
VOICE_FR ==
    [voiceURI |-> "urn:fr:thomas",
     name     |-> <<84, 104, 111, 109, 97, 115>>,
     lang     |-> <<102, 114, 45, 70, 82>>]

\* The voices a browser may offer.
SystemVoices ==
    {VOICE_EN, VOICE_EN_GOOGLE, VOICE_TR, VOICE_TR_GOOGLE, VOICE_AZ, VOICE_FR}

\* window.speechSynthesis.getVoices(): lists without repetition.
VoiceLists ==
    { vs \in UNION { [1..n -> SystemVoices] : n \in 0..MaxVoices } :
        \A i, j \in 1..Len(vs) : i # j => vs[i] # vs[j] }

\* voices.find(P), given the indices of the voices that satisfy P: the index of
\* the first one, 0 when there is none
Find(hits) ==
    IF hits = {} THEN 0 ELSE CHOOSE k \in hits : \A j \in hits : k <= j

\* filteredVoices: the voices the settings modal offers for the UI language
filteredVoices(availableVoices, language) ==
    IF ~Truthy(language) THEN {}
    ELSE LET langCode == IF language = "az" THEN LANG_TR ELSE LanguageUnits(language)
         IN  { availableVoices[k] :
                 k \in { n \in 1..Len(availableVoices) :
                           includes(toLowerCase(availableVoices[n].lang), langCode) } }

\* Variant of selectVoice: a chosen voice that is missing falls through to the
\* language rules.
selectVoice_fallingThrough(language, voiceURI, voices) ==
    LET index == 1..Len(voices)
        specific == Find({ k \in index : voices[k].voiceURI = voiceURI })
        google == Find({ k \in index :
                           /\ includes(voices[k].lang, LanguageUnits(language))
                           /\ includes(voices[k].name, GOOGLE) })
        byLang == IF google # 0 THEN google
                  ELSE Find({ k \in index : includes(toLowerCase(voices[k].lang),
                                                     LanguageUnits(language)) })
        selected == IF byLang = 0 /\ language = "az"
                    THEN Find({ k \in index : includes(voices[k].lang, LANG_TR) })
                    ELSE byLang
    IN  IF Truthy(voiceURI) /\ specific # 0 THEN voices[specific].voiceURI
        ELSE IF selected # 0 THEN voices[selected].voiceURI ELSE NULL

\* The voice speakMessage gives its utterance, as the voice's URI; NULL when it
\* sets none and the engine uses its default voice.
selectVoice(language, voiceURI, voices) ==
    LET index == 1..Len(voices)
    IN  IF Truthy(voiceURI)
        THEN LET specific == Find({ k \in index : voices[k].voiceURI = voiceURI })
             IN  IF specific # 0 THEN voices[specific].voiceURI ELSE NULL
        ELSE LET google == Find({ k \in index :
                                    /\ includes(voices[k].lang, LanguageUnits(language))
                                    /\ includes(voices[k].name, GOOGLE) })
                 byLang == IF google # 0 THEN google
                           ELSE Find({ k \in index :
                                         includes(toLowerCase(voices[k].lang),
                                                  LanguageUnits(language)) })
                 selected == IF byLang = 0 /\ language = "az"
                             THEN Find({ k \in index :
                                           includes(voices[k].lang, LANG_TR) })
                             ELSE byLang
             IN  IF selected # 0 THEN voices[selected].voiceURI ELSE NULL

\* The settings a user can have made: the voice select offers Auto-Detect ('')
\* and the filtered voices of the list loaded at that time; the engine's list
\* at the time of speaking is another one (onvoiceschanged).
VoiceInit ==
    /\ AppInit
    /\ recognitionSupported = TRUE
    /\ arg \in { [fn              |-> "speakMessage",
                  language        |-> l,
                  availableVoices |-> a,
                  voiceURI        |-> u,
                  voices          |-> vs] :
                    l \in PickedLanguages, a \in VoiceLists,
                    u \in {NULL, ""} \cup { v.voiceURI : v \in SystemVoices },
                    vs \in VoiceLists }
    /\ arg.voiceURI \in {NULL, ""}
          \cup { v.voiceURI : v \in filteredVoices(arg.availableVoices, arg.language) }
    /\ result = [called |-> FALSE, voice |-> NULL]

\* speakMessage up to window.speechSynthesis.speak: result.voice is utterance.voice
callSpeakMessage ==
    /\ ~result.called
    /\ result' = [called |-> TRUE,
                  voice  |-> selectVoice(arg.language, arg.voiceURI, arg.voices)]
    /\ UNCHANGED <<appVars, arg>>

VoiceNext == callSpeakMessage

SpecVoice == VoiceInit /\ [][VoiceNext]_vars


----------------------------------------------------------------------------
(* Properties.                                                            *)

\* The text parts and the inline-data parts of one turn.
TurnTexts(turn) ==
    { turn.parts[k].text : k \in { n \in 1..Len(turn.parts) : turn.parts[n].kind = "text" } }

TurnImages(turn) ==
    { turn.parts[k].data :
        k \in { n \in 1..Len(turn.parts) : turn.parts[n].kind = "inlineData" } }

\* A turn carries a message: its image if it has one, and its text if it has one.
TurnCarries(turn, msg) ==
    /\ TurnImages(turn) = (IF msg.attachment = NULL THEN {} ELSE {msg.attachment})
    /\ msg.text # << >> => TurnTexts(turn) = {msg.text}

\* C1: for every history H and new message M, the turns sendMessageToGemini
\* sends are one turn per entry of H, in the order of H, followed by the turn
\* for M as the last turn; a turn's role is 'user' for a user entry and
\* 'model' for a bot entry.
C1_HistoryThenCurrent ==
    result.called =>
        LET H == arg.history
            C == result.contents
        IN  /\ Len(C) = Len(H) + 1
            /\ \A i \in 1..Len(H) :
                   /\ H[i].sender = USER => C[i].role = "user"
                   /\ H[i].sender = BOT => C[i].role = "model"
                   /\ TurnCarries(C[i], H[i])
            /\ C[Len(C)].role = "user"
            /\ TurnTexts(C[Len(C)]) = {arg.currentMessage}

\* A bot entry followed by a user entry with another text has been serialised.
C1_Witness ==
    /\ result.called
    /\ Len(arg.history) = 2
    /\ arg.history[1].sender = BOT /\ arg.history[1].text = TEXT_A
    /\ arg.history[2].sender = USER /\ arg.history[2].text = TEXT_B
    /\ arg.history[2].attachment # NULL
    /\ arg.currentMessage = TEXT_A

\* C2: at most one generation request is outstanding at any moment; a request
\* is outstanding exactly while isLoading is true, and while it is, every
\* submission (send button, Enter, suggestion) is rejected.
C2_OneOutstandingRequest ==
    /\ Len(inflight) <= 1
    /\ isLoading <=> inflight # << >>
    /\ isLoading => \A textOverride \in Overrides : SendRejected(textOverride)

\* A request is in flight and the user has typed the next message.
C2_Witness ==
    /\ ChatRendered
    /\ isLoading /\ Len(inflight) = 1
    /\ trim(inputValue) # << >>

\* The submission a request in flight belongs to: the last message.
Submitted == messages[Len(messages)]

\* C3 (as stated): the image endpoint is called exactly when
\* isImageGenerationRequest(text) is true.
C3_ClassifierAloneDecides ==
    inflight # << >> =>
        (Head(inflight).endpoint = "generateImages"
            <=> isImageGenerationRequest(Submitted.text))

\* C3 (amended): the image endpoint is called, with the text as prompt, exactly
\* when isImageGenerationRequest(text) is true and the submission carries no
\* attachment; otherwise the text endpoint is called with a turn for every
\* message of the conversation.
C3_ClassifierAndNoAttachmentDecide ==
    inflight # << >> =>
        LET call == Head(inflight)
        IN  /\ Submitted.sender = USER
            /\ call.endpoint = "generateImages"
                   <=> (isImageGenerationRequest(Submitted.text)
                            /\ Submitted.attachment = NULL)
            /\ call.endpoint = "generateImages" => call.prompt = Submitted.text
            /\ call.endpoint # "generateImages" =>
                   /\ call.endpoint = "generateContent"
                   /\ Len(call.contents) >= Len(messages)
                   /\ \A i \in 1..Len(messages) :
                          TurnCarries(call.contents[i], messages[i])

\* An image request with an attachment went to the text endpoint.
C3_Witness ==
    /\ inflight # << >>
    /\ isImageGenerationRequest(Submitted.text)
    /\ Submitted.attachment # NULL
    /\ Head(inflight).endpoint = "generateContent"

\* C4: submitting "mənə Bakının şəklini çək" without an attachment invokes the
\* image path (the classifier returns true for it).
C4_ScenarioTakesImagePath ==
    (inflight # << >> /\ Submitted.text = TEXT_SCENARIO /\ Submitted.attachment = NULL)
        => Head(inflight).endpoint = "generateImages"

\* C5: the classifier is insensitive to letter case:
\* isImageGenerationRequest(s) = isImageGenerationRequest(s.toUpperCase()).
C5_CaseInsensitive ==
    (result.plain # {} /\ result.upperCased # {}) => result.plain = result.upperCased

\* C6: whenever the view is 'preview', previewCode is a non-empty string.
C6_PreviewHasPayload ==
    currentView = "preview" => previewCode # << >>

\* A saved project is being previewed.
C6_Witness ==
    /\ alertShown = NULL
    /\ currentView = "preview"
    /\ projects # << >>
    /\ previewCode = projects[1].code

\* The text holds a closed ```html block with non-blank content: an opening
\* fence, the first closing fence after it, and a non-white-space unit between.
HasClosedNonBlankHtmlBlock(text) ==
    \E i \in 1..(Len(text) - Len(FENCE_HTML) + 1), j \in 1..(Len(text) - Len(FENCE) + 1) :
        /\ SubSeq(text, i, i + Len(FENCE_HTML) - 1) = FENCE_HTML
        /\ j >= i + Len(FENCE_HTML)
        /\ SubSeq(text, j, j + Len(FENCE) - 1) = FENCE
        /\ \A k \in (i + Len(FENCE_HTML))..(j - 1) :
               SubSeq(text, k, k + Len(FENCE) - 1) # FENCE
        /\ \E k \in (i + Len(FENCE_HTML))..(j - 1) : text[k] \notin WhiteSpace

\* C7: every bot message whose text contains a closed ```html block with
\* non-blank content offers the preview button.
C7_FencedBlockOffersPreview ==
    \A idx \in 1..Len(messages) :
        (messages[idx].sender = BOT /\ HasClosedNonBlankHtmlBlock(messages[idx].text))
            => PreviewButtonShown(messages[idx])

\* The project name is empty or white space only.
NameIsBlank ==
    \A i \in 1..Len(projectNameInput) : projectNameInput[i] \in WhiteSpace

\* C8: saveProject with an empty or white-space-only name changes nothing of
\* the library and produces no feedback.
C8_BlankNameIsNoOp ==
    [][(saveProject /\ NameIsBlank)
          => (projects' = projects /\ alertShown' = NULL /\ alertShown = NULL)]_vars

\* The save dialog is open on a white-space-only name, with a project saved.
C8_Witness ==
    /\ alertShown = NULL
    /\ currentView = "preview" /\ showSaveDialog
    /\ projectNameInput = SPACE
    /\ Len(projects) = 1

\* C9: saveProject with a non-blank name grows the library by exactly one; the
\* new project is at the head, holds the previewed payload, and the projects
\* saved before follow it unchanged and in order.
C9_SaveAddsAtHead ==
    [][(saveProject /\ ~NameIsBlank)
          => /\ Len(projects') = Len(projects) + 1
             /\ projects'[1].code = previewCode
             /\ projects'[1].name = projectNameInput
             /\ Tail(projects') = projects]_vars

\* Two projects saved at different times; the later one is at the head.
C9_Witness ==
    /\ alertShown # NULL
    /\ Len(projects) = 2
    /\ projects[1].createdAt > projects[2].createdAt
    /\ projects[1].code # << >>

\* C10: deleteProject removes exactly the one project the user selected.
C10_DeleteRemovesExactlyOne ==
    [][deleteProject => Len(projects') = Len(projects) - 1]_vars


\* C11: when an endpoint call fails, exactly one bot message marked isError is
\* appended, carrying the fixed capability-specific error text and never the
\* message of the transport error; the busy flag is cleared, no call is left
\* outstanding, and a non-blank submission is accepted in the state reached.
C11_FailureAppendsOneErrorMessage ==
    [][(imageRejected \/ textRejected)
          => /\ Len(messages') = Len(messages) + 1
             /\ SubSeq(messages', 1, Len(messages)) = messages
             /\ messages'[Len(messages')].sender = BOT
             /\ messages'[Len(messages')].isError
             /\ messages'[Len(messages')].text =
                    (IF Head(inflight).endpoint = "generateImages"
                     THEN IMAGE_ERROR_MESSAGE ELSE TEXT_ERROR_MESSAGE)
             /\ messages'[Len(messages')].text \notin TransportErrors
             /\ ~isLoading' /\ inflight' = << >>
             /\ (~SendRejected(TEXT_SCENARIO))']_vars

\* An error message sits in the conversation and the submission made after it
\* was accepted: its user message follows the error message.
C11_Witness ==
    /\ Len(messages) >= 4
    /\ messages[3].sender = BOT /\ messages[3].isError
    /\ messages[4].sender = USER
    /\ inflight # << >>

\* C19: the conversation is the welcome message followed by user and bot
\* messages in strict alternation; at most one endpoint call is outstanding,
\* the busy flag is set exactly while it is, and every user message has either
\* its one bot message after it or its one call outstanding.
C19_OneCallOneReply ==
    /\ Len(inflight) <= 1
    /\ isLoading <=> inflight # << >>
    /\ selectedLanguage # NULL =>
          /\ Len(messages) >= 1
          /\ \A i \in 1..Len(messages) :
                messages[i].sender = (IF i % 2 = 0 THEN USER ELSE BOT)
          /\ Len(messages) % 2 = (IF inflight = << >> THEN 1 ELSE 0)
    /\ Cardinality({i \in 1..Len(messages) : messages[i].sender = USER})
          = Cardinality({i \in 2..Len(messages) : messages[i].sender = BOT})
               + Len(inflight)

\* Two exchanges are complete: welcome, user, bot, user, bot.
C19_Witness ==
    /\ Len(messages) = 5
    /\ inflight = << >> /\ ~isLoading
    /\ messages[5].sender = BOT /\ ~messages[5].isError

\* C12: with auto-read on, the timer of the auto-read effect starts the
\* playback of a message at most once.
C12_AutoReadOnce ==
    \A index \in 1..MaxConversation : autoReads[index] <= 1

\* C16: the engine never holds more than one utterance, and the speak button of
\* the message whose utterance the engine is speaking stops the playback: the
\* queue is empty afterwards.
C16_SpeakButtonStopsPlayback ==
    [][/\ Len(synthQueue') <= 1
       /\ \A index \in 1..MaxMessages :
             (clickSpeak(index) /\ synthQueue # << >>
                                /\ Head(synthQueue).index = index)
                => synthQueue' = << >>]_vars

\* C17: the voice of an utterance follows the priority: the chosen voice URI
\* when it names a voice of the engine; else a voice whose language tag matches
\* the UI language; else, for the Azerbaijani UI, a Turkish voice; else none
\* (the engine's default voice).
C17_VoicePriority ==
    result.called =>
        LET voices   == { arg.voices[k] : k \in 1..Len(arg.voices) }
            chosen   == { v \in voices : /\ Truthy(arg.voiceURI)
                                         /\ v.voiceURI = arg.voiceURI }
            matching == { v \in voices :
                            includes(toLowerCase(v.lang), LanguageUnits(arg.language)) }
            turkish  == { v \in voices : /\ arg.language = "az"
                                         /\ includes(toLowerCase(v.lang), LANG_TR) }
            allowed  == IF chosen # {} THEN chosen
                        ELSE IF matching # {} THEN matching
                        ELSE turkish
        IN  IF allowed = {} THEN result.voice = NULL
            ELSE result.voice \in { v.voiceURI : v \in allowed }

\* C18: the result of a recognition session sets the input field to the
\* transcript when the field was empty, and to the field's text, one space and
\* the transcript otherwise; a recognition error clears the listening flag and
\* changes neither the conversation, the input field nor the alert.
C18_TranscriptAppended ==
    [][/\ \A speechResult \in Transcripts :
             recognitionResult(speechResult)
                => /\ inputValue' = (IF inputValue = << >> THEN speechResult
                                     ELSE inputValue \o <<32>> \o speechResult)
                   /\ messages' = messages
       /\ recognitionError
             => /\ ~isListening'
                /\ messages' = messages
                /\ inputValue' = inputValue
                /\ alertShown' = alertShown]_vars

\* A transcript was appended to a field that held typed text, and no session
\* is left.
C18_Witness ==
    /\ inputValue = TEXT_SCENARIO \o <<32>> \o TRANSCRIPT
    /\ recognitions = << >>
    /\ ~isListening

\* C13: once a language is selected, every step leaves the messages it found
\* as an unchanged prefix of the messages it leaves.
C13_AppendOnly ==
    [][selectedLanguage # NULL
          => /\ Len(messages') >= Len(messages)
             /\ SubSeq(messages', 1, Len(messages)) = messages]_vars

\* The chat is on display again after a preview was saved as a project, with
\* the whole exchange still in the conversation.
C13_Witness ==
    /\ currentView = "chat"
    /\ projects # << >>
    /\ Len(messages) = 3
    /\ messages[1].id = "welcome" /\ messages[2].sender = USER
    /\ messages[3].sender = BOT

\* C14: a selected language never changes; the view does not move before a
\* language is selected, and afterwards only along chat -> projects,
\* projects -> chat, chat -> preview, projects -> preview and preview -> chat.
C14_ViewTransitions ==
    [][/\ selectedLanguage # NULL => selectedLanguage' = selectedLanguage
       /\ selectedLanguage = NULL => currentView' = currentView
       /\ currentView' # currentView
             => <<currentView, currentView'>> \in
                   { <<"chat", "projects">>, <<"projects", "chat">>,
                     <<"chat", "preview">>, <<"projects", "preview">>,
                     <<"preview", "chat">> }]_vars

\* The preview shows a project opened from the library.
C14_Witness ==
    /\ selectedLanguage # NULL
    /\ currentView = "preview"
    /\ projects # << >>
    /\ previewCode = projects[1].code

\* C15: a step from the preview to the chat with no project saved leaves
\* previewCode empty.
C15_LeavingPreviewDiscards ==
    [][(currentView = "preview" /\ currentView' = "chat" /\ projects = << >>)
          => previewCode' = << >>]_vars

\* C15 as the code has it: a step out of the preview leaves previewCode as it
\* was, the non-empty payload the preview showed.
C15_LeavingPreviewKeeps ==
    [][(currentView = "preview" /\ currentView' # "preview")
          => /\ currentView' = "chat"
             /\ previewCode' = previewCode
             /\ previewCode' # << >>]_vars

\* The chat is on display, nothing was saved, and previewCode holds the payload
\* of the bot message that was previewed.
C15_Witness ==
    /\ currentView = "chat"
    /\ projects = << >>
    /\ previewCode # << >>
    /\ \E i \in 1..Len(messages) : htmlCode(messages[i]) = SomeHtmlCode(previewCode)

\* C20: the Open button of a project card shows the preview with the code of a
\* project of the library as its payload, and changes neither the library nor
\* the conversation.
C20_OpenShowsStoredCode ==
    [][loadProject
          => /\ currentView' = "preview"
             /\ \E idx \in 1..Len(projects) : previewCode' = projects[idx].code
             /\ projects' = projects
             /\ messages' = messages]_vars

\* Two projects with different code are saved, and the preview shows the code
\* of the older one while the newer one was the last to be saved.
C20_Witness ==
    /\ currentView = "preview"
    /\ Len(projects) = 2
    /\ projects[1].code # projects[2].code
    /\ previewCode = projects[2].code
    /\ Len(messages) = 5

\* C21: the contents handleSendMessage sends on the text path are one turn for
\* each message the conversation held before the submission, in order, followed
\* by one turn for the new user message and its attachment.
C21_NewMessageSentOnce ==
    [][(/\ Len(inflight') = Len(inflight) + 1
        /\ inflight'[Len(inflight')].endpoint = "generateContent")
          => LET contents == inflight'[Len(inflight')].contents
                 sent     == messages'[Len(messages')]
             IN  /\ Len(contents) = Len(messages) + 1
                 /\ \A i \in 1..Len(messages) : TurnCarries(contents[i], messages[i])
                 /\ TurnCarries(contents[Len(contents)], sent)]_vars

\* C22: the ids of the messages of the conversation are pairwise distinct.
C22_IdsDistinct ==
    \A i, j \in 1..Len(messages) : i # j => messages[i].id # messages[j].id

\* C23: at most one recognition session is starting or listening, and the
\* microphone button pressed while the listening flag is set leaves no session
\* starting or listening.
C23_OneSession ==
    [][LET running == { k \in 1..Len(recognitions') :
                          recognitions'[k].state \in {"starting", "listening"} }
       IN  /\ Cardinality(running) <= 1
           /\ (toggleListening /\ isListening) => running = {}]_vars

\* C24: a call of handleSendMessage with no text and no attachment, or with a
\* request in flight, or with no language selected, leaves the conversation,
\* the input field, the pending attachment and the busy flag as they were and
\* makes no endpoint call.
C24_RejectedSubmissionChangesNothing ==
    [][LET unchanged == /\ messages' = messages
                        /\ inputValue' = inputValue
                        /\ attachment' = attachment
                        /\ isLoading' = isLoading
                        /\ inflight' = inflight
       IN  /\ (/\ handleKeyPress
               /\ \/ (trim(inputValue) = << >> /\ attachment = NULL)
                  \/ inflight # << >>)
                 => unchanged
           /\ \A textOverride \in Overrides :
                 (invokeHandleSendMessage(textOverride) /\ selectedLanguage = NULL)
                    => unchanged]_vars

\* A request is in flight while the input field holds typed text and an
\* attachment is pending: the Enter key is a rejected submission here, and the
\* text and the attachment are still in place.
C24_Witness ==
    /\ ChatRendered
    /\ isLoading /\ inflight # << >>
    /\ trim(inputValue) # << >>
    /\ attachment # NULL
    /\ messages[Len(messages)].sender = USER

\* C25: every bot message whose text contains <!DOCTYPE html> offers the
\* preview, with the content of its closed html block as the payload when it
\* has one and its whole text otherwise.
C25_DoctypeYieldsPayload ==
    \A idx \in 1..Len(messages) :
        (messages[idx].sender = BOT /\ includes(messages[idx].text, DOCTYPE))
            => LET match == MatchHtmlFence(messages[idx].text)
               IN  /\ PreviewButtonShown(messages[idx])
                   /\ htmlCode(messages[idx]).code =
                          (IF match.matched THEN trim(match.group)
                           ELSE messages[idx].text)
====
